---------------------------- MODULE Spec2Model ----------------------------
(***************************************************************************)
(* A model of the tool-augmented chat client of src/apps/client.py         *)
(* (MCPOpenAIClient and main).                                             *)
(*                                                                         *)
(* The Orchestrator is one coroutine.  Its position is pc; every `await`   *)
(* of a request to the Tool Host or to the completion endpoint is a pair   *)
(* of actions, one that issues the request (the request is appended to     *)
(* inflight) and one that resumes the coroutine with the outcome (a value, *)
(* or a raised exception).  Everything the code does between two           *)
(* suspension points belongs to the action that resumes it.                *)
(*                                                                         *)
(* Text is a sequence of one-character strings, so that strip() and        *)
(* lower() are computed and not assumed.  print() is taken to succeed.     *)
(*                                                                         *)
(* The tool get_knowledge_base of src/apps/server.py is modelled next to   *)
(* it, under the specification HostSpec: one call of the tool for every    *)
(* content the store file can have.  Its texts are strings.                *)
(***************************************************************************)
EXTENDS Naturals, Sequences, FiniteSets

\* ------------------------------------------------------------------------
\* Bounds of the model
\* ------------------------------------------------------------------------

\* Largest number of tool calls in one model response.
MaxCalls == 2

\* Largest number of input lines handed to process_query in one run.
MaxQueries == 2

\* The longest knowledge base list the store file holds.
MaxRecords == 3

\* ------------------------------------------------------------------------
\* Values the environment supplies
\* ------------------------------------------------------------------------

\* Python's None, where a string is expected.
NoneVal == "<None>"

\* What an awaited call (or input()) can raise: an instance of Exception,
\* or a BaseException that is not one (KeyboardInterrupt, SystemExit,
\* asyncio.CancelledError).
Kinds == {"Exception", "BaseException"}

\* Lines input() can return.
Lines ==
    { <<"q","u","i","t">>,
      <<" ","Q","u","I","t","\t">>,
      <<"q","u","i","t","s">>,
      <<"q"," ","u","i","t">>,
      <<" ","H","i"," ">> }

\* The operation the Tool Host of src/apps/server.py registers.
HostTools == <<"get_knowledge_base">>

\* Elements of tool_calls a model response can hold: {id, function: {name,
\* arguments}}.  The names are the registered one and one the Tool Host
\* does not know; the arguments are the empty object and text that is not
\* JSON.
ToolCalls ==
    { [id |-> "call_1", name |-> "get_knowledge_base", arguments |-> "{}"],
      [id |-> "call_2", name |-> "get_knowledge_base", arguments |-> "{}"],
      [id |-> "call_2", name |-> "no_such_tool", arguments |-> "{}"],
      [id |-> "call_1", name |-> "get_knowledge_base",
       arguments |-> "{oops"] }

\* function.arguments -> json.loads: the parsed value, or JSONDecodeError.
json_loads(text) ==
    IF text = "{}" THEN [ok |-> TRUE, value |-> "dict()"]
                   ELSE [ok |-> FALSE, value |-> NoneVal]

SeqsUpTo(S, n) == UNION { [1..k -> S] : k \in 0..n }

\* message.content of a completion response.
Contents == {NoneVal, "answer"}

\* choices[0].message of the first completion response.  tool_calls = <<>>
\* stands for both None and the empty list: `if assistant_message.tool_calls`
\* treats them alike.
Responses == [content : Contents, tool_calls : SeqsUpTo(ToolCalls, MaxCalls)]

\* choices[0].message of the second completion response: with tool_choice
\* "none" the endpoint should answer in text, and may hold a tool call all
\* the same.
FinalResponses ==
    [content : Contents, tool_calls : {<<>>} \cup { <<c>> : c \in ToolCalls }]

\* result.content of a call_tool result: the texts of its content elements.
ResultContents == { <<>>, <<"kb">>, <<"note","kb">> }

\* What call_tool(name, ...) can return.  The client sends every name it is
\* given; a Tool Host answers a name it does not know with an error result
\* that holds one text (or the call raises, see Outcomes).
ResultsFor(name) ==
    IF \E i \in 1..Len(HostTools) : HostTools[i] = name
    THEN ResultContents
    ELSE { <<"Unknown tool">> }


\* ------------------------------------------------------------------------
\* Text helpers of chat_loop
\* ------------------------------------------------------------------------

Whitespace == {" ", "\t", "\n"}

\* str.lower() on one character of the alphabet of Lines.
lower_char(c) ==
    CASE c = "Q" -> "q"
      [] c = "U" -> "u"
      [] c = "I" -> "i"
      [] c = "T" -> "t"
      [] c = "H" -> "h"
      [] c = "S" -> "s"
      [] OTHER -> c

\* str.lower()
lower(s) == [i \in 1..Len(s) |-> lower_char(s[i])]

RECURSIVE lstrip(_)
lstrip(s) ==
    IF s # <<>> /\ Head(s) \in Whitespace THEN lstrip(Tail(s)) ELSE s

RECURSIVE rstrip(_)
rstrip(s) ==
    IF s # <<>> /\ s[Len(s)] \in Whitespace
    THEN rstrip(SubSeq(s, 1, Len(s) - 1))
    ELSE s

\* str.strip()
strip(s) == rstrip(lstrip(s))

\* `query = input(...).strip()`
ReadQuery(line) == strip(line)

IsQuit_CaseSensitive(query) == query = <<"q","u","i","t">>

\* `if query.lower() == 'quit'`
IsQuit(query) == lower(query) = <<"q","u","i","t">>

\* `except Exception as e` of chat_loop: which raised kinds it catches.
Caught_Nothing(kind) == FALSE

Caught(kind) == kind = "Exception"

\* ------------------------------------------------------------------------
\* Message shapes of process_query
\* ------------------------------------------------------------------------

\* {"role": "user", "content": query}
UserMessage(q) == [role |-> "user", content |-> q]

\* assistant_message = response.choices[0].message
AssistantMessage(resp) ==
    [role |-> "assistant", content |-> resp.content,
     tool_calls |-> resp.tool_calls]

ToolMessage_LastElement(tool_call, content) ==
    [role |-> "tool", tool_call_id |-> tool_call.id,
     content |-> content[Len(content)]]

\* {"role": "tool", "tool_call_id": tool_call.id,
\*  "content": result.content[0].text}
ToolMessage(tool_call, content) ==
    [role |-> "tool", tool_call_id |-> tool_call.id,
     content |-> content[1]]

\* get_mcp_tools: each descriptor in the function-calling shape.
Manifest(descriptors) ==
    [i \in 1..Len(descriptors) |->
        [type |-> "function", name |-> descriptors[i]]]

\* ------------------------------------------------------------------------
\* State
\* ------------------------------------------------------------------------

VARIABLES
    pc,             \* position of the coroutine main()
    exit_stack,     \* contexts entered on self.exit_stack, in order
    session,        \* self.session: "None", "open" or "closed"
    initialized,    \* session.initialize() has returned
    inflight,       \* requests issued and not yet answered
    discovered,     \* tool names printed by connect_to_server
    iter,           \* lines handed to process_query so far
    query,          \* query of the current iteration
    tools,          \* process_query: tools
    assistant_message, \* process_query: assistant_message
    messages,       \* process_query: messages
    k,              \* process_query: index of the current tool_call
    final_response, \* process_query: final_response.choices[0].message
    requests,       \* completion requests sent for the current query
    calls,          \* call_tool requests sent for the current query
    results,        \* call_tool results received for the current query
    ret,            \* outcome of the last process_query
    reports,        \* what the current iteration printed
    line,           \* what the last input() returned
    raised,         \* the exception raised in the current iteration
    prev,           \* where the iteration before raised, "none" if not
    earlier,        \* the query handed to process_query before this one
    connects,       \* calls of connect_to_server
    listCount,      \* list_tools requests sent on this connection
    cleanupRuns,    \* executions of cleanup()
    exitVia,        \* how control left the try block of main
    kb_file,        \* server: what data/knowledge_base.json is on disk
    kb_pc,          \* server: position inside get_knowledge_base
    knowledge_base, \* get_knowledge_base: knowledge_base
    kb_n,           \* get_knowledge_base: items the for loop has formatted
    kb_text,        \* get_knowledge_base: kb_text
    kb_exc,         \* get_knowledge_base: the exception raised in the try
    kb_result       \* what the tool call get_knowledge_base produced

\* The variables of the client process (src/apps/client.py).
clientVars == << pc, exit_stack, session, initialized, inflight, discovered,
                 iter, query, tools, assistant_message, messages, k,
                 final_response, requests, calls, results, ret, reports,
                 line, raised, prev, earlier, connects, listCount,
                 cleanupRuns, exitVia >>

\* The variables of the server process (src/apps/server.py).
hostVars == << kb_file, kb_pc, knowledge_base, kb_n, kb_text, kb_exc,
               kb_result >>

vars == << clientVars, hostVars >>

\* The variables that belong to one run of process_query.
queryVars == << tools, assistant_message, messages, k, final_response,
                requests, calls, results, ret >>

\* The variables connect_to_server and cleanup write.
connVars == << exit_stack, session, initialized, discovered, connects,
              cleanupRuns >>

\* The variables one iteration of chat_loop writes before process_query.
iterVars == << iter, query, line, prev, earlier >>

NoResponse == AssistantMessage([content |-> NoneVal, tool_calls |-> <<>>])

NoReturn == [kind |-> "none", value |-> NoneVal]

NoRaise == [kind |-> "none", at |-> "none"]

\* Whether an exception was raised by input() or while the query was
\* processed.
RaisedIn(r) ==
    IF r.kind = "none" THEN "none"
    ELSE IF r.at = "input" THEN "input" ELSE "query"

\* No line: input() has not returned, or raised.
NoLine == << NoneVal >>

\* The server when no call of get_knowledge_base is in progress.
HostIdle ==
    /\ kb_file = [state |-> "missing"]
    /\ kb_pc = "idle"
    /\ knowledge_base = [t |-> "null"]
    /\ kb_n = 0
    /\ kb_text = ""
    /\ kb_exc = [class |-> "none", message |-> ""]
    /\ kb_result = [kind |-> "none", text |-> ""]

\* main(): `client = MCPOpenAIClient()` has run (__init__) and the try
\* block is about to call connect_to_server.
NotStarted ==
    /\ pc = "main"
    /\ exit_stack = <<>>
    /\ session = "None"
    /\ initialized = FALSE
    /\ inflight = <<>>
    /\ discovered = <<>>
    /\ iter = 0
    /\ query = <<>>
    /\ tools = <<>>
    /\ assistant_message = NoResponse
    /\ messages = <<>>
    /\ k = 0
    /\ final_response = NoResponse
    /\ requests = <<>>
    /\ calls = <<>>
    /\ results = <<>>
    /\ ret = NoReturn
    /\ reports = <<>>
    /\ line = NoLine
    /\ raised = NoRaise
    /\ prev = "none"
    /\ earlier = NoLine
    /\ connects = 0
    /\ listCount = 0
    /\ cleanupRuns = 0
    /\ exitVia = "none"

\* The client about to connect; the tool of the server is not running.
Init ==
    /\ NotStarted
    /\ HostIdle

\* ------------------------------------------------------------------------
\* Control flow shared by the actions
\* ------------------------------------------------------------------------

\* Positions inside chat_loop, and those of them inside process_query.
QueryPcs == {"list_wait", "first_wait", "call_wait", "final_wait"}

LoopPcs == {"input"} \cup QueryPcs

\* Positions after the try block of main.
EndPcs == {"finally", "done"}

\* A request is issued / the awaited answer to the oldest one has arrived.
Issue(fl, call) == Append(fl, call)

Completed_NotAwaited(fl) == fl

Completed(fl) == Tail(fl)

MainOnRaise_NoFinally == "done"

\* main: an exception leaving the try block runs the finally clause.
MainOnRaise == "finally"

\* main: chat_loop returned; the finally clause follows.
MainAfterLoop == "finally"

AfterConnectRaise_Swallowed == "input"

\* main: nothing between connect_to_server and the finally clause catches.
AfterConnectRaise == MainOnRaise

\* An exception of `kind` raised at `at` inside connect_to_server.
ConnectRaises(kind, at) ==
    /\ pc' = AfterConnectRaise
    /\ raised' = [kind |-> kind, at |-> at]
    /\ exitVia' = "connect_failed"
    /\ UNCHANGED reports

LoopRaises_Silent(kind, at, reps) ==
    /\ raised' = [kind |-> kind, at |-> at]
    /\ reports' = reps
    /\ IF Caught(kind)
       THEN pc' = "input" /\ UNCHANGED exitVia
       ELSE pc' = MainOnRaise /\ exitVia' = "escape"

\* An exception of `kind` raised at `at` inside the try block of chat_loop,
\* after the iteration printed reps.
LoopRaises(kind, at, reps) ==
    /\ raised' = [kind |-> kind, at |-> at]
    /\ IF Caught(kind)
       THEN /\ reports' = Append(reps, "error")
            /\ pc' = "input"
            /\ UNCHANGED exitVia
       ELSE /\ reports' = reps
            /\ pc' = MainOnRaise
            /\ exitVia' = "escape"

QueryRaises_Retried(kind, at) ==
    /\ raised' = [kind |-> kind, at |-> at]
    /\ UNCHANGED << ret, inflight, reports, pc, exitVia >>

\* process_query raises: nothing in it catches.
QueryRaises(kind, at) ==
    /\ ret' = [kind |-> "raised", value |-> kind]
    /\ inflight' = Completed(inflight)
    /\ LoopRaises(kind, at, reports)

\* process_query returns value; chat_loop prints "\nAnswer: " + response,
\* a TypeError when response is None.
Returns(value) ==
    /\ ret' = [kind |-> "value", value |-> value]
    /\ inflight' = Completed(inflight)
    /\ IF value = NoneVal
       THEN LoopRaises("Exception", "print", reports)
       ELSE /\ reports' = Append(reports, "answer")
            /\ pc' = "input"
            /\ UNCHANGED << raised, exitVia >>

\* messages of the first completion request: the user message alone.
FirstMessages(q) == << UserMessage(q) >>

Conversation_Carried(q, am) ==
    (IF earlier = NoLine THEN <<>> ELSE << UserMessage(earlier) >>)
        \o << UserMessage(q), am >>

\* `messages = [{"role": "user", "content": query}, assistant_message]`: a
\* new list for every query.
Conversation(q, am) == << UserMessage(q), am >>

FinalToolChoice_Auto == "auto"

\* tool_choice of the second completion request.
FinalToolChoice == "none"

HasToolCalls_Always(am) == TRUE

\* `if assistant_message.tool_calls:`
HasToolCalls(am) == am.tool_calls # <<>>

\* The for loop of process_query from its j-th tool call on, with the
\* conversation msgs: parse the arguments and issue call_tool, or, after the
\* last call, issue the second completion request.
DispatchFrom(tcs, j, msgs) ==
    IF j > Len(tcs)
    THEN /\ requests' = Append(requests,
                [messages |-> msgs, tools |-> tools,
                 tool_choice |-> FinalToolChoice])
         /\ inflight' = Issue(Completed(inflight), "completion")
         /\ pc' = "final_wait"
         /\ UNCHANGED << calls, ret, reports, raised, exitVia >>
    ELSE LET parsed == json_loads(tcs[j].arguments) IN
         IF ~parsed.ok
         THEN /\ QueryRaises("Exception", "json_loads")
              /\ UNCHANGED << requests, calls >>
         ELSE /\ calls' = Append(calls,
                     [name |-> tcs[j].name, arguments |-> parsed.value])
              /\ inflight' = Issue(Completed(inflight), "call_tool")
              /\ pc' = "call_wait"
              /\ UNCHANGED << requests, ret, reports, raised, exitVia >>

\* ------------------------------------------------------------------------
\* main and connect_to_server
\* ------------------------------------------------------------------------

Outcomes == {"ok"} \cup Kinds

\* main: `await client.connect_to_server()`, up to the first suspension,
\* entering stdio_client.
main_connect ==
    /\ pc = "main"
    /\ UNCHANGED hostVars
    /\ connects' = connects + 1
    /\ pc' = "stdio_wait"
    /\ UNCHANGED << exit_stack, session, initialized, discovered,
                    cleanupRuns, inflight, iterVars, queryVars, reports,
                    raised, listCount, exitVia >>

\* stdio_client was entered (or failed); ClientSession is entered next.
connect_stdio ==
    /\ pc = "stdio_wait"
    /\ UNCHANGED hostVars
    /\ \E outcome \in Outcomes :
         IF outcome = "ok"
         THEN /\ exit_stack' = Append(exit_stack, "stdio_client")
              /\ pc' = "session_wait"
              /\ UNCHANGED << reports, raised, exitVia >>
         ELSE /\ ConnectRaises(outcome, "stdio_client")
              /\ UNCHANGED exit_stack
    /\ UNCHANGED << session, initialized, discovered, connects,
                    cleanupRuns, inflight, iterVars, queryVars, listCount >>

\* ClientSession was entered (or failed); session.initialize() is issued.
connect_session ==
    /\ pc = "session_wait"
    /\ UNCHANGED hostVars
    /\ \E outcome \in Outcomes :
         IF outcome = "ok"
         THEN /\ exit_stack' = Append(exit_stack, "ClientSession")
              /\ session' = "open"
              /\ inflight' = Issue(inflight, "initialize")
              /\ pc' = "init_wait"
              /\ UNCHANGED << reports, raised, exitVia >>
         ELSE /\ ConnectRaises(outcome, "ClientSession")
              /\ UNCHANGED << exit_stack, session, inflight >>
    /\ UNCHANGED << initialized, discovered, connects, cleanupRuns,
                    iterVars, queryVars, listCount >>

\* session.initialize() returned (or raised); session.list_tools() is
\* issued.
connect_initialize ==
    /\ pc = "init_wait"
    /\ UNCHANGED hostVars
    /\ \E outcome \in Outcomes :
         IF outcome = "ok"
         THEN /\ initialized' = TRUE
              /\ inflight' = Issue(Completed(inflight), "list_tools")
              /\ listCount' = listCount + 1
              /\ pc' = "connect_list_wait"
              /\ UNCHANGED << reports, raised, exitVia >>
         ELSE /\ ConnectRaises(outcome, "initialize")
              /\ inflight' = Completed(inflight)
              /\ UNCHANGED << initialized, listCount >>
    /\ UNCHANGED << exit_stack, session, discovered, connects, cleanupRuns,
                    iterVars, queryVars >>

\* session.list_tools() returned (or raised); the tools are printed,
\* connect_to_server returns and chat_loop waits in input().
connect_list_tools ==
    /\ pc = "connect_list_wait"
    /\ UNCHANGED hostVars
    /\ inflight' = Completed(inflight)
    /\ \E outcome \in Outcomes :
         IF outcome = "ok"
         THEN /\ discovered' = HostTools
              /\ pc' = "input"
              /\ UNCHANGED << reports, raised, exitVia >>
         ELSE /\ ConnectRaises(outcome, "list_tools")
              /\ UNCHANGED discovered
    /\ UNCHANGED << exit_stack, session, initialized, connects,
                    cleanupRuns, iterVars, queryVars, listCount >>

\* cleanup(): exit_stack.aclose() leaves every entered context, last first.
cleanup ==
    /\ pc = "finally"
    /\ UNCHANGED hostVars
    /\ cleanupRuns' = cleanupRuns + 1
    /\ exit_stack' = <<>>
    /\ session' = IF session = "open" THEN "closed" ELSE session
    /\ pc' = "done"
    /\ UNCHANGED << initialized, discovered, connects, inflight, iterVars,
                    queryVars, reports, raised, listCount, exitVia >>

\* ------------------------------------------------------------------------
\* chat_loop
\* ------------------------------------------------------------------------

ListCountAfterQuery_Cached(c) == c

\* get_mcp_tools: every process_query sends one more list_tools request.
ListCountAfterQuery(c) == c + 1

\* A new iteration: nothing of the process_query of the iteration before
\* is left.
NewIteration ==
    /\ tools' = <<>>
    /\ assistant_message' = NoResponse
    /\ messages' = <<>>
    /\ k' = 0
    /\ final_response' = NoResponse
    /\ requests' = <<>>
    /\ calls' = <<>>
    /\ results' = <<>>
    /\ ret' = NoReturn

\* input() returns a line that is the quit command: "Goodbye!", break.
input_quit ==
    /\ pc = "input"
    /\ UNCHANGED hostVars
    /\ \E l \in Lines :
         /\ IsQuit(ReadQuery(l))
         /\ line' = l
         /\ query' = ReadQuery(l)
    /\ prev' = RaisedIn(raised)
    /\ raised' = NoRaise
    /\ reports' = << "goodbye" >>
    /\ pc' = MainAfterLoop
    /\ exitVia' = "quit"
    /\ NewIteration
    /\ UNCHANGED << iter, earlier, connVars, inflight, listCount >>

\* input() returns any other line: process_query(query) runs up to its
\* first suspension, the list_tools request of get_mcp_tools.
input_query ==
    /\ pc = "input"
    /\ UNCHANGED hostVars
    /\ iter < MaxQueries
    /\ \E l \in Lines :
         /\ ~IsQuit(ReadQuery(l))
         /\ line' = l
         /\ query' = ReadQuery(l)
    /\ iter' = iter + 1
    /\ earlier' = IF iter = 0 THEN NoLine ELSE query
    /\ prev' = RaisedIn(raised)
    /\ raised' = NoRaise
    /\ reports' = <<>>
    /\ NewIteration
    /\ inflight' = Issue(inflight, "list_tools")
    /\ listCount' = ListCountAfterQuery(listCount)
    /\ pc' = "list_wait"
    /\ UNCHANGED << connVars, exitVia >>

\* input() raises (EOFError, KeyboardInterrupt).
input_raise ==
    /\ pc = "input"
    /\ UNCHANGED hostVars
    /\ line' = NoLine
    /\ prev' = RaisedIn(raised)
    /\ \E kind \in Kinds : LoopRaises(kind, "input", <<>>)
    /\ NewIteration
    /\ UNCHANGED << iter, query, earlier, connVars, inflight, listCount >>

\* ------------------------------------------------------------------------
\* process_query
\* ------------------------------------------------------------------------

\* get_mcp_tools: list_tools returned (or raised); the first completion
\* request is issued with the user message alone and tool_choice "auto".
query_list_tools ==
    /\ pc = "list_wait"
    /\ UNCHANGED hostVars
    /\ \E outcome \in Outcomes :
         IF outcome = "ok"
         THEN /\ tools' = Manifest(HostTools)
              /\ requests' = Append(requests,
                     [messages |-> FirstMessages(query),
                      tools |-> tools', tool_choice |-> "auto"])
              /\ inflight' = Issue(Completed(inflight), "completion")
              /\ pc' = "first_wait"
              /\ UNCHANGED << ret, reports, raised, exitVia >>
         ELSE /\ QueryRaises(outcome, "get_mcp_tools")
              /\ UNCHANGED << tools, requests >>
    /\ UNCHANGED << assistant_message, messages, k, final_response, calls,
                    results, connVars, iterVars, listCount >>

\* The first completion returned (or raised): without tool calls its
\* content is returned, otherwise the first tool call is dispatched.
query_first_response ==
    /\ pc = "first_wait"
    /\ UNCHANGED hostVars
    /\ \E outcome \in Outcomes :
         IF outcome = "ok"
         THEN \E resp \in Responses :
                LET am == AssistantMessage(resp)
                    msgs == Conversation(query, am)
                IN  /\ assistant_message' = am
                    /\ messages' = msgs
                    /\ IF HasToolCalls(am)
                       THEN /\ k' = 1
                            /\ DispatchFrom(am.tool_calls, 1, msgs)
                       ELSE /\ k' = k
                            /\ Returns(am.content)
                            /\ UNCHANGED << requests, calls >>
         ELSE /\ QueryRaises(outcome, "completion_1")
              /\ UNCHANGED << assistant_message, messages, k, requests,
                              calls >>
    /\ UNCHANGED << tools, final_response, results, connVars, iterVars,
                    listCount >>

\* call_tool for tool call k returned (or raised): the tool message with
\* result.content[0].text is appended (IndexError without content) and the
\* loop goes on with tool call k + 1.
query_tool_result ==
    /\ pc = "call_wait"
    /\ UNCHANGED hostVars
    /\ \E outcome \in Outcomes :
         IF outcome = "ok"
         THEN \E content \in ResultsFor(calls[k].name) :
                /\ results' = Append(results, content)
                /\ IF content = <<>>
                   THEN /\ QueryRaises("Exception", "content[0]")
                        /\ UNCHANGED << messages, k, requests, calls >>
                   ELSE LET tcs == assistant_message.tool_calls
                            msgs == Append(messages,
                                           ToolMessage(tcs[k], content))
                        IN  /\ messages' = msgs
                            /\ k' = k + 1
                            /\ DispatchFrom(tcs, k + 1, msgs)
         ELSE /\ QueryRaises(outcome, "call_tool")
              /\ UNCHANGED << messages, k, requests, calls, results >>
    /\ UNCHANGED << tools, assistant_message, final_response, connVars,
                    iterVars, listCount >>

\* The second completion returned (or raised): its content is returned,
\* whatever tool calls it holds.
query_final_response ==
    /\ pc = "final_wait"
    /\ UNCHANGED hostVars
    /\ \E outcome \in Outcomes :
         IF outcome = "ok"
         THEN \E resp \in FinalResponses :
                /\ final_response' = AssistantMessage(resp)
                /\ Returns(resp.content)
         ELSE /\ QueryRaises(outcome, "completion_2")
              /\ UNCHANGED final_response
    /\ UNCHANGED << tools, assistant_message, messages, k, requests, calls,
                    results, connVars, iterVars, listCount >>

\* ------------------------------------------------------------------------
\* Specifications
\* ------------------------------------------------------------------------

Next ==
    \/ main_connect
    \/ connect_stdio
    \/ connect_session
    \/ connect_initialize
    \/ connect_list_tools
    \/ input_quit
    \/ input_query
    \/ input_raise
    \/ query_list_tools
    \/ query_first_response
    \/ query_tool_result
    \/ query_final_response
    \/ cleanup

Spec == Init /\ [][Next]_vars

\* The finally clause of main is not abandoned once control is in it.
FairSpec == Spec /\ WF_vars(cleanup)

\* ------------------------------------------------------------------------
\* The tool get_knowledge_base (src/apps/server.py)
\* ------------------------------------------------------------------------

\* JSON values as json.load returns them.
JString(s) == [t |-> "string", s |-> s]

JNumber(n) == [t |-> "number", n |-> n]

JNull == [t |-> "null"]

JBool(b) == [t |-> "bool", b |-> b]

\* A dict: its members in order, each a pair << key, value >>.
JObject(members) == [t |-> "object", items |-> members]

JList(elements) == [t |-> "list", items |-> elements]

\* A record with both keys.
QARecord(question, answer) ==
    JObject(<< << "question", JString(question) >>,
               << "answer", JString(answer) >> >>)

\* The records of the bounded knowledge bases that have both keys.
QARecords == { QARecord("Who?", "Me."), QARecord("Why?", "So.") }

\* What an element of the knowledge base list can be: a complete record,
\* a dict that lacks a key, and a value that is not a dict.
Items ==
    QARecords \cup
        { JObject(<< << "question", JString("Who?") >> >>),
          JObject(<< << "answer", JNumber(7) >> >>),
          JString("note") }

\* All sequences over S of length n.
Tuples(S, n) == [1..n -> S]

\* The store values that are a list.
ListValues == { JList(l) : l \in UNION { Tuples(Items, n) : n \in 0..MaxRecords } }

\* The store values that are not a list.
OtherValues ==
    { JObject(<< << "name", JString("kb") >>, << "size", JNumber(12) >> >>),
      JObject(<< << "meta",
                    JObject(<< << "tags",
                                  JList(<< JString("a"), JNull >>) >> >>) >>,
                 << "on", JBool(TRUE) >> >>),
      JObject(<<>>),
      JString("say \"hi\""),
      JNumber(42),
      JBool(FALSE),
      JNull }

\* What data/knowledge_base.json can be when the tool opens it: absent,
\* not readable by the process, bytes that are not text in the encoding of
\* open(), text that is not JSON, or a JSON document.
Files ==
    { [state |-> st] : st \in {"missing", "denied", "undecodable",
                               "malformed"} }
        \cup { [state |-> "json", value |-> v] :
                   v \in ListValues \cup OtherValues }

\* Exception classes and their base classes, nearest first.
Mro(class) ==
    CASE class = "FileNotFoundError" ->
             << "FileNotFoundError", "OSError", "Exception" >>
      [] class = "PermissionError" ->
             << "PermissionError", "OSError", "Exception" >>
      [] class = "JSONDecodeError" ->
             << "JSONDecodeError", "ValueError", "Exception" >>
      [] class = "UnicodeDecodeError" ->
             << "UnicodeDecodeError", "ValueError", "Exception" >>
      [] OTHER -> << class >>

\* isinstance(e, class), as an except clause tests it.
IsInstance(e, class) == \E i \in 1..Len(Mro(e.class)) : Mro(e.class)[i] = class

NoException == [class |-> "none", message |-> ""]

\* open(kb_file, "r"): the exception it raises, NoException if it opens.
open(file) ==
    CASE file.state = "missing" ->
             [class |-> "FileNotFoundError",
              message |-> "[Errno 2] No such file or directory"]
      [] file.state = "denied" ->
             [class |-> "PermissionError",
              message |-> "[Errno 13] Permission denied"]
      [] OTHER -> NoException

\* json.load(f): the exception it raises, NoException if it returns.
\* f.read() decodes the bytes before the JSON decoder sees the text.
json_load(file) ==
    CASE file.state = "undecodable" ->
             [class |-> "UnicodeDecodeError",
              message |-> "'utf-8' codec can't decode byte 0xff"]
      [] file.state = "malformed" ->
             [class |-> "JSONDecodeError",
              message |-> "Expecting value: line 1 column 1 (char 0)"]
      [] OTHER -> NoException

\* str(n) of a natural number.
RECURSIVE Str(_)
Str(n) ==
    IF n < 10 THEN SubSeq("0123456789", n + 1, n + 1)
    ELSE Str(n \div 10) \o SubSeq("0123456789", (n % 10) + 1, (n % 10) + 1)

\* The escapes json.dumps writes inside a string.
RECURSIVE Escape(_)
Escape(s) ==
    IF s = "" THEN ""
    ELSE LET c == SubSeq(s, 1, 1)
             e == IF c = "\"" THEN "\\\""
                  ELSE IF c = "\\" THEN "\\\\"
                  ELSE IF c = "\n" THEN "\\n"
                  ELSE c
         IN  e \o Escape(SubSeq(s, 2, Len(s)))

Quote(s) == "\"" \o Escape(s) \o "\""

RECURSIVE Indent(_)
Indent(level) == IF level = 0 THEN "" ELSE "  " \o Indent(level - 1)

RECURSIVE Dumps_Compact(_, _)
Dumps_Compact(v, level) ==
    LET RECURSIVE From(_)
        From(i) ==
            LET m == v.items[i]
                one == IF v.t = "object"
                       THEN Quote(m[1]) \o ": " \o Dumps_Compact(m[2], level)
                       ELSE Dumps_Compact(m, level)
            IN  one \o (IF i < Len(v.items) THEN ", " \o From(i + 1)
                        ELSE "")
    IN  CASE v.t = "string" -> Quote(v.s)
          [] v.t = "number" -> Str(v.n)
          [] v.t = "bool" -> IF v.b THEN "true" ELSE "false"
          [] v.t = "null" -> "null"
          [] v.t = "object" ->
                 IF v.items = <<>> THEN "{}" ELSE "{" \o From(1) \o "}"
          [] v.t = "list" ->
                 IF v.items = <<>> THEN "[]" ELSE "[" \o From(1) \o "]"

\* json.dumps(v, indent=2), v written at nesting depth `level`.
RECURSIVE Dumps(_, _)
RECURSIVE Members(_, _, _)

\* The members of the dict or list v from the i-th on, one to a line.
Members(v, i, level) ==
    LET m == v.items[i]
        one == IF v.t = "object"
               THEN Quote(m[1]) \o ": " \o Dumps(m[2], level)
               ELSE Dumps(m, level)
    IN  "\n" \o Indent(level) \o one
            \o (IF i < Len(v.items)
                THEN "," \o Members(v, i + 1, level)
                ELSE "")

Dumps(v, level) ==
    CASE v.t = "string" -> Quote(v.s)
      [] v.t = "number" -> Str(v.n)
      [] v.t = "bool" -> IF v.b THEN "true" ELSE "false"
      [] v.t = "null" -> "null"
      [] v.t = "object" ->
             IF v.items = <<>> THEN "{}"
             ELSE "{" \o Members(v, 1, level + 1)
                      \o "\n" \o Indent(level) \o "}"
      [] v.t = "list" ->
             IF v.items = <<>> THEN "[]"
             ELSE "[" \o Members(v, 1, level + 1)
                      \o "\n" \o Indent(level) \o "]"

\* item.get(key, default) of a dict.
get(item, key, default) ==
    IF \E i \in 1..Len(item.items) : item.items[i][1] = key
    THEN item.items[CHOOSE i \in 1..Len(item.items) :
                        item.items[i][1] = key][2]
    ELSE JString(default)

\* How an f-string writes a string or a number.
Format(v) == IF v.t = "number" THEN Str(v.n) ELSE v.s

Header == "Here is the retrieved knowledge base:\n\n"

Entry_Swapped(i, question, answer) ==
    "Q" \o Str(i) \o ": " \o answer \o "\nA" \o Str(i) \o ": " \o question
        \o "\n\n"

\* f"Q{i}: {question}\nA{i}: {answer}\n\n"
Entry(i, question, answer) ==
    "Q" \o Str(i) \o ": " \o question \o "\nA" \o Str(i) \o ": " \o answer
        \o "\n\n"

\* The body of the for loop for the i-th item (i counts from 1).
ItemText(i, item) ==
    IF item.t = "object"
    THEN Entry(i, Format(get(item, "question", "No question provided")),
                  Format(get(item, "answer", "No answer")))
    ELSE Entry(i, "Item " \o Str(i), Str(i))

\* f"Knowledge base content: {json.dumps(knowledge_base, indent=2)}\n\n"
Content(v) == "Knowledge base content: " \o Dumps(v, 0) \o "\n\n"

OnException_Generic(e) ==
    [kind |-> "text", text |-> "Error: " \o e.message]

\* The except clauses of get_knowledge_base, tried in order; an exception
\* none of them handles leaves the tool as a fault.
OnException(e) ==
    IF IsInstance(e, "FileNotFoundError")
    THEN [kind |-> "text", text |-> "Error: Knowledge base file not found."]
    ELSE IF IsInstance(e, "JSONDecodeError")
    THEN [kind |-> "text",
          text |-> "Error: Invalid JSON format in knowledge base file."]
    ELSE IF IsInstance(e, "Exception")
    THEN [kind |-> "text", text |-> "Error: " \o e.message]
    ELSE [kind |-> "fault", text |-> e.message]

\* A call of the tool arrives; the store file is in one of its states.
HostInit ==
    /\ NotStarted
    /\ kb_file \in Files
    /\ kb_pc = "open"
    /\ knowledge_base = JNull
    /\ kb_n = 0
    /\ kb_text = ""
    /\ kb_exc = NoException
    /\ kb_result = [kind |-> "none", text |-> ""]

\* with open(kb_file, "r") as f
kb_open ==
    /\ kb_pc = "open"
    /\ kb_exc' = open(kb_file)
    /\ kb_pc' = IF open(kb_file) = NoException THEN "load" ELSE "except"
    /\ UNCHANGED << kb_file, knowledge_base, kb_n, kb_text, kb_result >>
    /\ UNCHANGED clientVars

\* knowledge_base = json.load(f), then the header and the test for a list.
kb_load ==
    /\ kb_pc = "load"
    /\ IF json_load(kb_file) = NoException
       THEN /\ knowledge_base' = kb_file.value
            /\ kb_text' = Header
            /\ kb_pc' = IF kb_file.value.t = "list" THEN "loop" ELSE "dump"
            /\ UNCHANGED kb_exc
       ELSE /\ kb_exc' = json_load(kb_file)
            /\ kb_pc' = "except"
            /\ UNCHANGED << knowledge_base, kb_text >>
    /\ UNCHANGED << kb_file, kb_n, kb_result >>
    /\ UNCHANGED clientVars

\* One iteration of `for i, item in enumerate(knowledge_base, 1)`.
kb_item ==
    /\ kb_pc = "loop"
    /\ kb_n < Len(knowledge_base.items)
    /\ kb_n' = kb_n + 1
    /\ kb_text' = kb_text \o ItemText(kb_n + 1, knowledge_base.items[kb_n + 1])
    /\ UNCHANGED << kb_file, kb_pc, knowledge_base, kb_exc, kb_result >>
    /\ UNCHANGED clientVars

\* The else branch: the store value is not a list.
kb_dump ==
    /\ kb_pc = "dump"
    /\ kb_text' = kb_text \o Content(knowledge_base)
    /\ kb_pc' = "return"
    /\ UNCHANGED << kb_file, knowledge_base, kb_n, kb_exc, kb_result >>
    /\ UNCHANGED clientVars

\* return kb_text, after the loop or after the else branch.
kb_return ==
    /\ \/ kb_pc = "return"
       \/ kb_pc = "loop" /\ kb_n = Len(knowledge_base.items)
    /\ kb_result' = [kind |-> "text", text |-> kb_text]
    /\ kb_pc' = "done"
    /\ UNCHANGED << kb_file, knowledge_base, kb_n, kb_text, kb_exc >>
    /\ UNCHANGED clientVars

\* The exception raised in the try block reaches the except clauses.
kb_except ==
    /\ kb_pc = "except"
    /\ kb_result' = OnException(kb_exc)
    /\ kb_pc' = "done"
    /\ UNCHANGED << kb_file, knowledge_base, kb_n, kb_text, kb_exc >>
    /\ UNCHANGED clientVars

HostNext ==
    \/ kb_open
    \/ kb_load
    \/ kb_item
    \/ kb_dump
    \/ kb_return
    \/ kb_except

HostSpec == HostInit /\ [][HostNext]_vars

\* ------------------------------------------------------------------------
\* Properties
\* ------------------------------------------------------------------------

\* C1: when the first response requests n >= 1 tool calls c1..cn, the
\* conversation of the second completion request is exactly the user
\* message with the query, the assistant message, and one tool message per
\* call in the order of the calls, the i-th with the identifier of ci and
\* the first content element of the result of invoking ci.
C1_SecondRequestConversation ==
    Len(requests) >= 2 =>
        LET tcs == assistant_message.tool_calls
            toolMessages ==
                [i \in 1..Len(tcs) |->
                    [role |-> "tool", tool_call_id |-> tcs[i].id,
                     content |-> Head(results[i])]]
        IN  /\ Len(tcs) >= 1
            /\ Len(calls) = Len(tcs)
            /\ Len(results) = Len(tcs)
            /\ \A i \in 1..Len(tcs) : calls[i].name = tcs[i].name
            /\ requests[2].messages =
                   << [role |-> "user", content |-> query],
                      assistant_message >> \o toolMessages

\* C1 witness: a second request after two calls with different identifiers
\* whose results differ, the first with two content elements.
C1_Witness ==
    /\ Len(requests) = 2
    /\ Len(assistant_message.tool_calls) = 2
    /\ assistant_message.tool_calls[1].id = "call_2"
    /\ assistant_message.tool_calls[2].id = "call_1"
    /\ results = << <<"note","kb">>, <<"kb">> >>

\* C2: when the first response has zero tool calls, process_query returns
\* the content of that response as it is, no call_tool is sent and no
\* second completion request is issued.
C2_NoToolCallsDirectAnswer ==
    (messages # <<>> /\ assistant_message.tool_calls = <<>>) =>
        /\ ret = [kind |-> "value", value |-> assistant_message.content]
        /\ calls = <<>>
        /\ results = <<>>
        /\ Len(requests) = 1
        /\ inflight = <<>>

\* C2 witness: a first response without tool calls was returned.
C2_Witness ==
    /\ messages # <<>>
    /\ assistant_message.tool_calls = <<>>
    /\ ret = [kind |-> "value", value |-> "answer"]
    /\ reports = << "answer" >>

\* C3: with n >= 1 tool calls in the first response and no failing step,
\* exactly n tool invocations occur, then exactly one second completion
\* request, issued after all n invocations completed, with tool_choice
\* "none"; the content of the second response is returned and the tool
\* calls it holds are not executed.
C3_ToolCallsThenOneFinalRequest ==
    LET n == Len(assistant_message.tool_calls) IN
    /\ Len(requests) <= 2
    /\ Len(calls) <= n
    /\ Len(requests) = 2 =>
          /\ n >= 1
          /\ Len(calls) = n
          /\ Len(results) = n
          /\ requests[2].tool_choice = "none"
          /\ pc = "final_wait" => inflight = << "completion" >>
    /\ (n >= 1 /\ ret.kind = "value") =>
          /\ Len(requests) = 2
          /\ Len(calls) = n
          /\ ret.value = final_response.content
          /\ pc \notin QueryPcs
          /\ inflight = <<>>

\* C3 witness: two calls were made, and the second response, which holds a
\* tool call and another content than the first, was returned.
C3_Witness ==
    /\ Len(assistant_message.tool_calls) = 2
    /\ assistant_message.content = NoneVal
    /\ ret = [kind |-> "value", value |-> "answer"]
    /\ final_response.tool_calls # <<>>
    /\ Len(calls) = 2

\* C4 as stated: an exception raised while a query is processed, whatever
\* it is, is caught and reported, and the loop goes on to read the next
\* line.
C4_AnyRaiseKeepsLoop ==
    [][ (pc \in QueryPcs /\ raised'.kind # "none") =>
            (pc' = "input" /\ reports' = Append(reports, "error")) ]_vars

\* C4 as amended: an exception that is an instance of Exception, raised
\* while a query is processed, is caught and reported (once) and the loop
\* goes on to read the next line; main's try block is not left.
C4_ExceptionKeepsLoop ==
    [][ (pc \in QueryPcs /\ raised'.kind = "Exception") =>
            /\ pc' = "input"
            /\ reports' = Append(reports, "error")
            /\ exitVia' = "none"
            /\ cleanupRuns' = 0
            /\ inflight' = <<>> ]_vars

\* C4 witness: the second line is being processed after the query before
\* it raised.
C4_Witness ==
    /\ iter = 2
    /\ prev = "query"
    /\ pc \in QueryPcs
    /\ exitVia = "none"

\* C5: cleanup runs exactly once on every way out of the try block of main
\* (quit, an exception escaping chat_loop, a failure of connect_to_server),
\* and releases the session and the transport.
C5_CleanupRunsOnce ==
    /\ [](cleanupRuns <= 1)
    /\ [](pc = "done" =>
            (cleanupRuns = 1 /\ exit_stack = <<>> /\ session # "open"))
    /\ ((exitVia # "none") ~> (pc = "done" /\ cleanupRuns = 1))

\* C5 witness: an exception escaped the loop with the session open, and
\* cleanup has run and closed it.
C5_Witness ==
    /\ pc = "done"
    /\ exitVia = "escape"
    /\ cleanupRuns = 1
    /\ session = "closed"
    /\ exit_stack = <<>>

\* C6: at most one request, to the Tool Host or to the completion
\* endpoint, is outstanding in every reachable state.
C6_OneOutstandingCall ==
    /\ Len(inflight) <= 1
    /\ pc \in QueryPcs \cup {"init_wait", "connect_list_wait"}
          => Len(inflight) = 1
    /\ pc \in {"input", "finally", "done"} => inflight = <<>>

\* C6 witness: the second tool call of the second query is outstanding.
C6_Witness ==
    /\ iter = 2
    /\ pc = "call_wait"
    /\ k = 2
    /\ inflight = << "call_tool" >>

\* C7: a tool message is in the conversation only for a tool call whose
\* operation name is the name of a discovered Tool Descriptor.
C7_ToolResultOnlyForDiscoveredName ==
    \A i \in 3..Len(messages) :
        \E j \in 1..Len(discovered) :
            assistant_message.tool_calls[i - 2].name = discovered[j]

\* C8: a line that is "quit" in any letter case between any whitespace ends
\* the loop in that iteration, without an exception and without a call of
\* process_query.
C8_QuitEndsLoop ==
    [][ LET QuitLike(l) ==
                \E a \in 0..Len(l) :
                    /\ Len(l) >= a + 4
                    /\ \A i \in 1..a : l[i] \in {" ", "\t", "\n"}
                    /\ \A i \in (a + 5)..Len(l) : l[i] \in {" ", "\t", "\n"}
                    /\ l[a + 1] \in {"q", "Q"}
                    /\ l[a + 2] \in {"u", "U"}
                    /\ l[a + 3] \in {"i", "I"}
                    /\ l[a + 4] \in {"t", "T"}
        IN  (pc = "input" /\ QuitLike(line')) =>
                /\ pc' = "finally"
                /\ exitVia' = "quit"
                /\ raised' = NoRaise
                /\ iter' = iter
                /\ listCount' = listCount
                /\ requests' = <<>>
                /\ inflight' = <<>> ]_vars

\* C8 witness: the loop ended on " QuIt" followed by a tab, after one query.
C8_Witness ==
    /\ line = <<" ","Q","u","I","t","\t">>
    /\ exitVia = "quit"
    /\ pc = "done"
    /\ iter = 1
    /\ reports = << "goodbye" >>

\* C9 as stated: the try block of main is left only by the quit command or
\* by a failure of the connection.
C9_EndOnlyOnQuitOrConnectFailure ==
    pc \in EndPcs => exitVia \in {"quit", "connect_failed"}

\* C9 as amended: the try block of main is left only by the quit command,
\* by a failure of connect_to_server, or by a BaseException that is not an
\* Exception raised in the loop; no Exception raised by input() or while a
\* query is processed ends the loop.
C9_EndOnlyOnQuitConnectFailureOrBaseException ==
    /\ pc \in EndPcs =>
          \/ exitVia = "quit" /\ raised = NoRaise
          \/ exitVia = "connect_failed" /\ iter = 0 /\ line = NoLine
          \/ exitVia = "escape" /\ raised.kind = "BaseException"
    /\ pc \notin EndPcs => exitVia = "none"

\* C9 witness: a BaseException raised by call_tool ended the loop.
C9_Witness ==
    /\ pc = "done"
    /\ exitVia = "escape"
    /\ raised = [kind |-> "BaseException", at |-> "call_tool"]

\* C10: a failure while the channel is set up, in the handshake or in the
\* first tool listing leaves connect_to_server and ends the start:
\* connect_to_server is not called again, chat_loop does not start and no
\* query is processed.
C10_ConnectFailureAbortsStartup ==
    /\ connects <= 1
    /\ raised.at \in {"stdio_client", "ClientSession", "initialize",
                      "list_tools"}
          => /\ exitVia = "connect_failed"
             /\ pc \in EndPcs
    /\ exitVia = "connect_failed"
          => /\ pc \in EndPcs
             /\ iter = 0
             /\ line = NoLine
             /\ discovered = <<>>
             /\ listCount <= 1
             /\ requests = <<>>
             /\ calls = <<>>
             /\ reports = <<>>

\* C10 witness: the handshake failed and main has ended.
C10_Witness ==
    /\ pc = "done"
    /\ exitVia = "connect_failed"
    /\ raised = [kind |-> "Exception", at |-> "initialize"]
    /\ exit_stack = <<>>
    /\ cleanupRuns = 1

\* C11: process_query neither retries nor recovers: a failure at any of its
\* steps leaves it at once with that exception, and the requests sent for
\* the query are those before the failing step, each sent once; after a
\* failure at the k-th tool call, calls 1..k-1 were invoked and there is no
\* second completion request.
C11_NoRetryNoRecovery ==
    LET n == Len(assistant_message.tool_calls)
        sent == << Len(requests), Len(calls), Len(results) >>
    IN
    /\ raised.at \in {"get_mcp_tools", "completion_1", "json_loads",
                      "call_tool", "content[0]", "completion_2"}
          => /\ ret = [kind |-> "raised", value |-> raised.kind]
             /\ pc \notin QueryPcs
             /\ inflight = <<>>
    /\ ret.kind = "raised"
          => /\ listCount = iter + 1
             /\ \A i \in 1..Len(calls) :
                   /\ calls[i].name = assistant_message.tool_calls[i].name
                   /\ json_loads(assistant_message.tool_calls[i].arguments).ok
             /\ CASE raised.at = "get_mcp_tools" -> sent = << 0, 0, 0 >>
                  [] raised.at = "completion_1"  -> sent = << 1, 0, 0 >>
                  [] raised.at = "json_loads" ->
                        k \in 1..n /\ sent = << 1, k - 1, k - 1 >>
                  [] raised.at = "call_tool" ->
                        k \in 1..n /\ sent = << 1, k, k - 1 >>
                  [] raised.at = "content[0]" ->
                        k \in 1..n /\ sent = << 1, k, k >>
                  [] raised.at = "completion_2" ->
                        n >= 1 /\ sent = << 2, n, n >>
                  [] OTHER -> FALSE

\* C11 witness: the second tool call failed after the first was invoked and
\* answered; the failure was reported and no second request was sent.
C11_Witness ==
    /\ ret = [kind |-> "raised", value |-> "Exception"]
    /\ raised.at = "call_tool"
    /\ k = 2
    /\ Len(calls) = 2
    /\ Len(results) = 1
    /\ Len(requests) = 1
    /\ pc = "input"
    /\ reports = << "error" >>

\* C12: the conversation is built anew for every query: the messages of
\* every completion request of a query are the user message of that query,
\* then (second request) the assistant message of that query and the tool
\* results of that query, and nothing else, whatever the query before was
\* and however it ended.
C12_ConversationFreshPerQuery ==
    /\ \A r \in 1..Len(requests) :
          LET m == requests[r].messages IN
          /\ m[1] = [role |-> "user", content |-> query]
          /\ r = 1 => Len(m) = 1
          /\ r = 2 =>
                /\ Len(m) = 2 + Len(results)
                /\ m[2] = assistant_message
                /\ \A i \in 3..Len(m) :
                      /\ m[i].role = "tool"
                      /\ m[i].tool_call_id =
                            assistant_message.tool_calls[i - 2].id
                      /\ m[i].content = results[i - 2][1]
    /\ messages # <<>> =>
          /\ messages[1] = [role |-> "user", content |-> query]
          /\ messages[2] = assistant_message
          /\ Len(messages) <= 2 + Len(results)

\* C12 witness: the second request of a second query, after another query
\* that failed.
C12_Witness ==
    /\ iter = 2
    /\ earlier # NoLine
    /\ earlier # query
    /\ prev = "query"
    /\ Len(requests) = 2
    /\ Len(requests[2].messages) = 4

\* C16 as stated: over the lifetime of a connection the list_tools request
\* is sent exactly once.
C16_ListToolsOnce ==
    listCount <= 1

\* C16 as amended: the list_tools request is sent once by
\* connect_to_server and once more by every process_query: after q queries
\* on a connection it was sent 1 + q times.
C16_ListToolsOncePerQuery ==
    /\ listCount <= 1 + iter
    /\ pc \in {"connect_list_wait"} \cup LoopPcs => listCount = 1 + iter
    /\ exitVia \in {"quit", "escape"} => listCount = 1 + iter
    /\ pc \in {"main", "stdio_wait", "session_wait", "init_wait"}
          => listCount = 0

\* C16 witness: two queries were processed and the loop was left by quit
\* after three list_tools requests.
C16_Witness ==
    /\ pc = "done"
    /\ exitVia = "quit"
    /\ iter = 2
    /\ listCount = 3

\* C17: a list_tools or call_tool request is outstanding, and a query is
\* processed, only while the session is entered, the handshake has
\* completed and cleanup has not begun.
C17_RequestsOnlyWhileConnected ==
    LET connected ==
            /\ session = "open"
            /\ initialized
            /\ exit_stack = << "stdio_client", "ClientSession" >>
            /\ cleanupRuns = 0
            /\ pc \notin EndPcs
    IN  /\ \A i \in 1..Len(inflight) :
              inflight[i] \in {"list_tools", "call_tool"} => connected
        /\ pc \in QueryPcs => connected
        /\ iter > 0 => session # "None" /\ initialized
        /\ inflight # <<>> => session = "open"

\* C17 witness: a call_tool request of the second query is outstanding on
\* the connected session.
C17_Witness ==
    /\ inflight = << "call_tool" >>
    /\ iter = 2
    /\ session = "open"
    /\ initialized
    /\ cleanupRuns = 0

\* C18: every line that is not the quit command gets exactly one report
\* before the next line is read, the answer or an error report; an absent
\* content of the returned response gets the error report.
C18_OneReportPerLine ==
    /\ pc \in QueryPcs => reports = <<>>
    /\ (pc = "input" /\ line # NoLine) =>
          /\ reports \in { << "answer" >>, << "error" >> }
          /\ reports = << "answer" >> <=>
                (ret.kind = "value" /\ ret.value # NoneVal)
          /\ reports = << "error" >> <=> raised.kind = "Exception"
          /\ (ret.kind = "value" /\ ret.value = NoneVal) =>
                raised = [kind |-> "Exception", at |-> "print"]

\* C18 witness: the response returned for a line had no content, and the
\* loop, about to read the next line, printed one error report.
C18_Witness ==
    /\ pc = "input"
    /\ line = <<" ","H","i"," ">>
    /\ ret = [kind |-> "value", value |-> NoneVal]
    /\ reports = << "error" >>
    /\ Len(requests) = 2

\* The positions at which the text p occurs in the text t.
Occ(p, t) ==
    { i \in 1..Len(t) : i + Len(p) - 1 <= Len(t)
                        /\ SubSeq(t, i, i + Len(p) - 1) = p }

\* The line breaks of a dump with one member to a line: every dict or list
\* that is not empty puts each member on a line of its own and its closing
\* bracket on one more.
RECURSIVE LineBreaks(_)
RECURSIVE LineBreaksFrom(_, _)
LineBreaksFrom(v, i) ==
    IF i > Len(v.items) THEN 0
    ELSE LineBreaks(IF v.t = "object" THEN v.items[i][2] ELSE v.items[i])
             + LineBreaksFrom(v, i + 1)

LineBreaks(v) ==
    IF v.t \in {"object", "list"} /\ v.items # <<>>
    THEN Len(v.items) + 1 + LineBreaksFrom(v, 1)
    ELSE 0

\* C13 as stated: the tool never ends in a fault; a missing store file
\* gives exactly "Error: Knowledge base file not found.", every store file
\* that cannot be parsed gives exactly "Error: Invalid JSON format in
\* knowledge base file.", any other failure gives "Error: " and its message.
C13_FailuresAsText ==
    /\ kb_result.kind # "fault"
    /\ kb_pc = "done" =>
          /\ kb_result.kind = "text"
          /\ kb_file.state = "missing" =>
                kb_result.text = "Error: Knowledge base file not found."
          /\ kb_file.state \in {"malformed", "undecodable"} =>
                kb_result.text =
                    "Error: Invalid JSON format in knowledge base file."
          /\ kb_file.state = "denied" =>
                kb_result.text = "Error: " \o open(kb_file).message

\* C13 as amended: the tool never ends in a fault; a missing store file
\* gives exactly "Error: Knowledge base file not found.", a store file
\* whose text is not JSON gives exactly "Error: Invalid JSON format in
\* knowledge base file.", and any other failure, a store file whose bytes
\* cannot be decoded as text among them, gives "Error: " and its message.
C13_FailuresAsTextByClass ==
    /\ kb_result.kind # "fault"
    /\ kb_pc = "done" =>
          /\ kb_result.kind = "text"
          /\ kb_file.state = "missing" =>
                kb_result.text = "Error: Knowledge base file not found."
          /\ kb_file.state = "malformed" =>
                kb_result.text =
                    "Error: Invalid JSON format in knowledge base file."
          /\ kb_file.state = "undecodable" =>
                kb_result.text = "Error: " \o json_load(kb_file).message
          /\ kb_file.state = "denied" =>
                kb_result.text = "Error: " \o open(kb_file).message
          /\ kb_file.state = "json" => kb_result.text = kb_text

\* C13 witness: the bytes of the store file could not be decoded and the
\* tool returned the message of that failure as text.
C13_Witness ==
    /\ kb_pc = "done"
    /\ kb_file.state = "undecodable"
    /\ kb_exc.class = "UnicodeDecodeError"
    /\ kb_result = [kind |-> "text",
                    text |-> "Error: 'utf-8' codec can't decode byte 0xff"]

\* C14: for a knowledge base that is a list of N question/answer records
\* the output contains "Qk: <question>\nAk: <answer>" of the k-th record
\* exactly once for every k in 1..N, in the order of the records, and no
\* such pattern for any other number or record.
C14_OneEntryPerRecord ==
    (/\ kb_pc = "done"
     /\ kb_file.state = "json"
     /\ kb_file.value.t = "list"
     /\ \A j \in 1..Len(kb_file.value.items) :
            kb_file.value.items[j] \in QARecords) =>
        LET recs == kb_file.value.items
            N == Len(recs)
            out == kb_result.text
            Pattern(j, r) ==
                "Q" \o Str(j) \o ": " \o r.items[1][2].s
                    \o "\nA" \o Str(j) \o ": " \o r.items[2][2].s
            At(j) == CHOOSE i \in Occ(Pattern(j, recs[j]), out) : TRUE
        IN  /\ kb_result.kind = "text"
            /\ \A j \in 1..N :
                   Cardinality(Occ(Pattern(j, recs[j]), out)) = 1
            /\ \A j \in 1..(N - 1) : At(j) < At(j + 1)
            /\ \A j \in 0..(MaxRecords + 1) : \A r \in QARecords :
                   Occ(Pattern(j, r), out) # {} =>
                       j \in 1..N /\ recs[j] = r
            /\ Cardinality(Occ("\nA", out)) = N

\* C14 witness: a knowledge base of three records, one of them twice, was
\* formatted.
C14_Witness ==
    /\ kb_pc = "done"
    /\ kb_file.state = "json"
    /\ kb_file.value = JList(<< QARecord("Why?", "So."),
                                QARecord("Who?", "Me."),
                                QARecord("Why?", "So.") >>)
    /\ kb_n = 3
    /\ kb_result.kind = "text"

\* C15: for a store value that is not a list the output is the header,
\* "Knowledge base content: ", the dump of the value and an empty line; the
\* dump puts every member of a dict or list that is not empty on a line of
\* its own, indented, and writes a scalar as JSON writes it.
C15_DumpOfOtherValues ==
    (/\ kb_pc = "done"
     /\ kb_file.state = "json"
     /\ kb_file.value.t # "list") =>
        LET v == kb_file.value
            out == kb_result.text
            prefix == "Knowledge base content: "
            from == Len(Header) + Len(prefix) + 1
            dump == SubSeq(out, from, Len(out) - 2)
        IN  /\ kb_result.kind = "text"
            /\ Occ(prefix, out) = { Len(Header) + 1 }
            /\ SubSeq(out, 1, Len(Header)) = Header
            /\ SubSeq(out, Len(out) - 1, Len(out)) = "\n\n"
            /\ Cardinality(Occ("\n", dump)) = LineBreaks(v)
            /\ \A i \in Occ("\n", dump) :
                   SubSeq(dump, i + 1, i + 1) \in {" ", "}"}
            /\ v.t = "object" /\ v.items # <<>> =>
                   /\ SubSeq(dump, 1, 4) = "{\n  "
                   /\ SubSeq(dump, Len(dump) - 1, Len(dump)) = "\n}"
                   /\ \A i \in 1..Len(v.items) :
                          Occ("\n  \"" \o v.items[i][1] \o "\": ", dump) # {}
            /\ v = JObject(<<>>) => dump = "{}"
            /\ v = JNull => dump = "null"
            /\ v = JNumber(42) => dump = "42"
            /\ v = JBool(FALSE) => dump = "false"
            /\ v = JString("say \"hi\"") => dump = "\"say \\\"hi\\\"\""

\* C15 witness: a store value that is one object with a nested object was
\* dumped on nine lines.
C15_Witness ==
    /\ kb_pc = "done"
    /\ kb_file.state = "json"
    /\ kb_file.value.t = "object"
    /\ Len(kb_file.value.items) = 2
    /\ kb_file.value.items[1][1] = "meta"
    /\ LineBreaks(kb_file.value) = 8
    /\ kb_result.kind = "text"

=============================================================================
